---- MODULE Spec2Model ----
(***************************************************************************)
(* VideoVoiceCapturer: the batch orchestrator of cli.py (main,             *)
(* _process_sequential, _process_parallel over a ThreadPoolExecutor) and   *)
(* the steps of AudioExtractor.extract of extractor.py, which every        *)
(* request runs against the one shared output directory.                   *)
(*                                                                         *)
(* Requests are identified by their position in urls (1..n).  The          *)
(* external collaborators (the ffmpeg probe, the downloader, the           *)
(* transcoder, the file system's unlink) are the environment: each of      *)
(* their outcomes is drawn with \E in the step that calls them.            *)
(***************************************************************************)
EXTENDS Integers, Sequences, FiniteSets, TLC

\* ---- bounds ----
MaxUrls == 3          \* number of URLs on the command line is 1..MaxUrls
MaxJobs == 2          \* -j/--jobs is 1..MaxJobs

VARIABLES
    n,                  \* len(urls)
    max_workers,        \* -j/--jobs
    continue_on_error,  \* --continue-on-error
    formats,            \* the extensions the downloader may give the videos of this run
    pc,                 \* position of the main thread
    submitted,          \* futures created so far by the submit comprehension
    seqIdx,             \* enumerate index of _process_sequential's loop (0 before the first)
    cancelIdx,          \* position of the "for f in futures: f.cancel()" loop
    fstate,             \* state of each request's Future
    acStarted,          \* as_completed has installed its waiter
    preFinished,        \* futures as_completed found already finished, not yet yielded
    waiterQ,            \* waiter.finished_futures, in completion order, not yet yielded
    results,            \* the batch function's local results dict
    report,             \* what main received from the batch function
    raised,             \* an exception propagated out of the batch function
    exit_code,          \* process exit status (-1 while running)
    tpc,                \* position of each request inside extract
    outcome,            \* how each request's extract ended
    temp_file,          \* the temp file extract located for each request
    convErr,            \* the pending conversion error while the finally block runs
    tempdir,            \* output_dir/temp_audio.<ext>: 0 absent, else the request that wrote it
    call,               \* arguments and collaborator outcomes of one direct extract call
    title,              \* a video title handed to _sanitize_filename
    safe_title,         \* _sanitize_filename(title)
    resanitized,        \* _sanitize_filename(safe_title)
    finish_order,       \* history: the requests in the order their futures finished
    early               \* history: the futures as_completed found finished when it started

cfgVars  == <<n, max_workers, continue_on_error, formats>>
mainVars == <<pc, submitted, seqIdx, cancelIdx, results, report, raised, exit_code>>
acVars   == <<acStarted, preFinished, waiterQ>>
taskVars == <<tpc, outcome, temp_file, convErr, tempdir>>
callVars == <<call>>
sanVars  == <<title, safe_title, resanitized>>
histVars == <<finish_order, early>>
obsVars  == <<call, title, safe_title, resanitized, finish_order, early>>
vars == <<n, max_workers, continue_on_error, formats, pc, submitted, seqIdx, cancelIdx,
          fstate, acStarted, preFinished, waiterQ, results, report, raised,
          exit_code, tpc, outcome, temp_file, convErr, tempdir,
          call, title, safe_title, resanitized, finish_order, early>>

Reqs == 1..n

\* ---- extractor.py ----

\* the extensions extract probes, in priority order
ProbeOrder == <<"mp4", "webm", "m4a", "mp3", "ogg">>

ProbedExts == {ProbeOrder[k] : k \in 1..Len(ProbeOrder)}

\* temp_audio.%(ext)s: the downloader names the file after the container it
\* got, which need not be one extract probes for
UnprobedExts == {"3gp"}

TempExts == ProbedExts \cup UnprobedExts

\* 'format': 'bestaudio[ext=m4a]/bestaudio/best': the downloader takes the
\* m4a stream when the video has one
PreferredFormats == {"m4a"}

\* what the transcoder process can do: exit 0, exit non-zero, exceed the timeout
TranscoderExits == {"zero", "nonzero", "timeout"}

RECURSIVE FirstExisting(_, _)
FirstExisting(dir, k) ==
    IF k > Len(ProbeOrder) THEN "none"
    ELSE IF dir[ProbeOrder[k]] # 0 THEN ProbeOrder[k]
    ELSE FirstExisting(dir, k + 1)

\* the probe loop over temp_audio<ext>
FindTempFile(dir) == FirstExisting(dir, 1)

\* _convert_audio: raises unless the transcoder exited 0 and the output file exists
ConvertAudioOk(exit, outputExists) == exit = "zero" /\ outputExists

\* what launching ["ffmpeg", "-version"] can do: exit 0, exit non-zero,
\* FileNotFoundError, exceed timeout=5, any other OSError (PermissionError)
ProbeLaunches == {"exit0", "nonzero", "notfound", "timeout", "oserror"}

\* _check_dependencies: subprocess.run(check=True), with CalledProcessError,
\* FileNotFoundError and TimeoutExpired caught; anything else propagates
CheckDependencies(launch) ==
    IF launch = "exit0" THEN "True"
    ELSE IF launch \in {"nonzero", "notfound", "timeout"} THEN "False"
    ELSE "raise"

\* strings are sequences of one-character strings
Host == <<"y", "o", "u", "t", "u", "b", "e", ".", "c", "o", "m">>

WatchPattern == Host \o <<"/", "w", "a", "t", "c", "h">>

ShortPattern == <<"y", "o", "u", "t", "u", ".", "b", "e", "/">>

ShortsPattern == Host \o <<"/", "s", "h", "o", "r", "t", "s", "/">>

LivePattern == Host \o <<"/", "l", "i", "v", "e", "/">>

\* valid_patterns
ValidPatterns == {WatchPattern, ShortPattern, ShortsPattern, LivePattern}

\* "pattern in url"
Contains(s, p) ==
    \E k \in 1..(Len(s) - Len(p) + 1) : SubSeq(s, k, k + Len(p) - 1) = p

\* _validate_url returns (TRUE) or raises (FALSE); a url is [type, text]
ValidateUrl(url) ==
    /\ url.type = "str"
    /\ url.text # <<>>
    /\ \E p \in ValidPatterns : Contains(url.text, p)

UpperLetters == <<"W", "A", "V", "M", "P", "F", "L", "C">>

LowerLetters == <<"w", "a", "v", "m", "p", "f", "l", "c">>

\* str.lower and str.upper on one character
LowerChar(c) ==
    IF \E k \in 1..Len(UpperLetters) : UpperLetters[k] = c
    THEN LowerLetters[CHOOSE k \in 1..Len(UpperLetters) : UpperLetters[k] = c]
    ELSE c

UpperChar(c) ==
    IF \E k \in 1..Len(LowerLetters) : LowerLetters[k] = c
    THEN UpperLetters[CHOOSE k \in 1..Len(LowerLetters) : LowerLetters[k] = c]
    ELSE c

Lower(s) == [k \in 1..Len(s) |-> LowerChar(s[k])]

\* str.lstrip("."): every leading dot goes
RECURSIVE LstripDots(_)
LstripDots(s) == IF s # <<>> /\ Head(s) = "." THEN LstripDots(Tail(s)) ELSE s

SUPPORTED_FORMATS == {<<"w", "a", "v">>, <<"m", "p", "3">>}

\* a normalisation that keeps the caller's letter case
NormalizeFormatKeepCase(format) == LstripDots(format)

\* format.lower().lstrip(".")
NormalizeFormat(format) == LstripDots(Lower(format))

FormatSupported(format) == NormalizeFormat(format) \in SUPPORTED_FORMATS

\* "if len(safe_title) > 50: safe_title = safe_title[:50]"
MaxFilenameLen == 50

\* the characters titles are drawn from; AlnumChars are those with c.isalnum()
AlnumChars == {"a"}

TitleChars == AlnumChars \cup {" ", "-", "_", ".", "/"}

\* c.isalnum() or c in " -_"
Kept(c) == c \in AlnumChars \/ c \in {" ", "-", "_"}

\* one iteration of "for c in title": what is appended to safe_chars.
\* c in "..." is a substring test, true of the single character "."
SafeChars(c) ==
    IF Kept(c) THEN <<c>>
    ELSE IF c = "." THEN <<".", ".", ".">>
    ELSE <<"_">>

\* "".join(safe_chars)
RECURSIVE Join(_)
Join(t) == IF t = <<>> THEN <<>> ELSE SafeChars(Head(t)) \o Join(Tail(t))

RECURSIVE LstripSpaces(_)
LstripSpaces(s) == IF s # <<>> /\ Head(s) = " " THEN LstripSpaces(Tail(s)) ELSE s

RECURSIVE RstripSpaces(_)
RstripSpaces(s) ==
    IF s # <<>> /\ s[Len(s)] = " " THEN RstripSpaces(SubSeq(s, 1, Len(s) - 1)) ELSE s

\* str.strip(): after the loop the only whitespace left in the string is " "
Strip(s) == RstripSpaces(LstripSpaces(s))

\* a sanitizer that never shortens
TruncateNever(s) == s

Truncate(s) == IF Len(s) > MaxFilenameLen THEN SubSeq(s, 1, MaxFilenameLen) ELSE s

Audio == <<"a", "u", "d", "i", "o">>

\* safe_title or "audio"
OrAudio(s) == IF s = <<>> THEN Audio ELSE s

\* _sanitize_filename
SanitizeFilename(t) == OrAudio(Truncate(Strip(Join(t))))

\* precondition checks that look at the URL before the transcoder
PreconditionsUrlFirst(ffmpegOk, urlOk, formatOk) ==
    IF ~urlOk THEN "InvalidURL"
    ELSE IF ~ffmpegOk THEN "DependencyMissing"
    ELSE IF ~formatOk THEN "UnsupportedFormat"
    ELSE "ok"

\* the first three statements of extract: _check_ffmpeg, _validate_url, the format test
Preconditions(ffmpegOk, urlOk, formatOk) ==
    IF ~ffmpegOk THEN "DependencyMissing"
    ELSE IF ~urlOk THEN "InvalidURL"
    ELSE IF ~formatOk THEN "UnsupportedFormat"
    ELSE "ok"

\* extract up to the download: an exception of the probe's launch that
\* _check_dependencies does not catch leaves extract as it is
PrecheckResult(launch, url, format) ==
    IF CheckDependencies(launch) = "raise" THEN "LaunchError"
    ELSE Preconditions(CheckDependencies(launch) = "True", ValidateUrl(url),
                       FormatSupported(format))

\* ---- cli.py ----

\* a pool that grows with the batch instead of honouring max_workers
PoolSizeUnbounded == n

\* ThreadPoolExecutor(max_workers=max_workers)
PoolSize == max_workers

\* a sequential loop that never re-raises
RaiseOnErrorNever(coe) == FALSE

\* "if not continue_on_error: raise" of _process_sequential
RaiseOnError(coe) == ~coe

\* a parallel loop that cancels and breaks on every failure
CancelOnErrorAlways(coe) == TRUE

\* "if not continue_on_error: cancel ... break" of _process_parallel
CancelOnError(coe) == ~coe

\* a loop that walks urls from the end
SeqOrderReversed(k) == n + 1 - k

\* enumerate(urls, 1): the k-th iteration handles the k-th URL
SeqOrder(k) == k

\* an exit status that ignores --continue-on-error
ExitCodeIgnoringFlag(failed, coe) == IF failed # <<>> THEN 1 ELSE 0

\* the end of main: sys.exit(1) if results["failed"] and not continue_on_error
ExitCode(failed, coe) == IF failed # <<>> /\ ~coe THEN 1 ELSE 0

\* process_single's (True, url, output_file) / (False, url, str(e)) and the
\* try/except of _process_sequential: only success or failure is acted on
Outcome(kind) == IF kind = "ok" THEN "ok" ELSE "failed"

\* a waiter that hands out the newest finished future first
WaiterAddFront(q, i) == <<i>> \o q

\* as_completed's waiter: add_result / add_exception append the future to
\* finished_futures, which the generator yields oldest first
WaiterAdd(q, i) == Append(q, i)

\* a report whose newest entry is put first
RecordFront(list, i) == <<i>> \o list

\* results["success"].append(...) / results["failed"].append(...)
Record(list, i) == Append(list, i)

\* a shutdown that does not join the workers
PoolDrainedNoWait == TRUE

\* leaving "with ThreadPoolExecutor(...)": shutdown(wait=True) returns when
\* every work item has run or was cancelled
PoolDrained == \A i \in Reqs : fstate[i] \in {"FINISHED", "CANCELLED"}

\* an as_completed that overlooks the futures finished before it was called
AlreadyFinishedMissed == {}

\* as_completed's first pass: the futures whose state is already FINISHED
AlreadyFinished == {i \in Reqs : fstate[i] = "FINISHED"}

EmptyResults == [success |-> <<>>, failed |-> <<>>]

NoReport == [success |-> <<>>, failed |-> <<>>, returned |-> FALSE]

Returned(r) == [success |-> r.success, failed |-> r.failed, returned |-> TRUE]

Parallel == max_workers > 1

InExtract(i) == tpc[i] \in {"check", "download", "locate", "convert", "cleanup"}

Executing == {i \in Reqs : InExtract(i)}

Started(i) == tpc[i] # "idle"

Pending == {i \in Reqs : fstate[i] = "PENDING"}

SeqItems(s) == {s[k] : k \in 1..Len(s)}

NoUrl == [type |-> "NoneType", text |-> <<>>]

\* extract(url, format) as called, with what its collaborators did filled in
\* as the call goes on
CallOf(url, format) ==
    [made |-> TRUE, url |-> url, format |-> format, valid |-> "none",
     probe |-> "none", dep |-> "none", ext |-> "none", exit |-> "none",
     output |-> FALSE, unlinked |-> "none", result |-> "none"]

\* no direct call, nothing sanitized, no history
NoCall == [CallOf(NoUrl, <<>>) EXCEPT !.made = FALSE]

ObsIdle ==
    /\ call = NoCall
    /\ title = <<>>
    /\ safe_title = <<>>
    /\ resanitized = <<>>
    /\ finish_order = <<>>
    /\ early = {}

Init ==
    /\ n \in 1..MaxUrls
    /\ max_workers \in 1..MaxJobs
    /\ continue_on_error \in BOOLEAN
    /\ formats = PreferredFormats
    /\ ObsIdle
    /\ pc = "main"
    /\ submitted = 0
    /\ seqIdx = 0
    /\ cancelIdx = 0
    /\ fstate = [i \in 1..n |-> "NONE"]
    /\ acStarted = FALSE
    /\ preFinished = {}
    /\ waiterQ = <<>>
    /\ results = EmptyResults
    /\ report = NoReport
    /\ raised = FALSE
    /\ exit_code = -1
    /\ tpc = [i \in 1..n |-> "idle"]
    /\ outcome = [i \in 1..n |-> "none"]
    /\ temp_file = [i \in 1..n |-> "none"]
    /\ convErr = [i \in 1..n |-> FALSE]
    /\ tempdir = [e \in TempExts |-> 0]

\* ---- one request's extract, run by a pool worker or by the main thread ----

\* extract returned or raised: process_single turns it into the future's
\* result (parallel), the sequential loop sees it directly
Finish(i, kind) ==
    /\ outcome' = [outcome EXCEPT ![i] = Outcome(kind)]
    /\ temp_file' = [temp_file EXCEPT ![i] = "none"]
    /\ convErr' = [convErr EXCEPT ![i] = FALSE]
    /\ tpc' = [tpc EXCEPT ![i] = "done"]
    /\ fstate' = IF Parallel THEN [fstate EXCEPT ![i] = "FINISHED"] ELSE fstate
    /\ waiterQ' = IF Parallel /\ acStarted THEN WaiterAdd(waiterQ, i) ELSE waiterQ

\* extract's checks gave r: go on to the download or raise
PrecheckStep(i, r) ==
    /\ tpc[i] = "check"
    /\ IF r = "ok"
       THEN /\ tpc' = [tpc EXCEPT ![i] = "download"]
            /\ UNCHANGED <<outcome, fstate, waiterQ, temp_file, convErr>>
       ELSE Finish(i, r)
    /\ UNCHANGED <<cfgVars, mainVars, acStarted, preFinished, tempdir>>

\* the format reaching extract was validated by click.Choice and normalised by main
Precheck(i) ==
    \E ffmpegOk \in BOOLEAN, urlOk \in BOOLEAN :
        PrecheckStep(i, Preconditions(ffmpegOk, urlOk, TRUE))

Download(i) ==
    /\ tpc[i] = "download"
    /\ \/ \E e \in formats :
            /\ tempdir' = [tempdir EXCEPT ![e] = i]
            /\ tpc' = [tpc EXCEPT ![i] = "locate"]
            /\ UNCHANGED <<outcome, fstate, waiterQ, temp_file, convErr>>
       \/ /\ Finish(i, "DownloadFailed")
          /\ UNCHANGED tempdir
    /\ UNCHANGED <<cfgVars, mainVars, acStarted, preFinished>>

Locate(i) ==
    /\ tpc[i] = "locate"
    /\ LET f == FindTempFile(tempdir) IN
         IF f = "none"
         THEN Finish(i, "ArtifactNotFound")
         ELSE /\ temp_file' = [temp_file EXCEPT ![i] = f]
              /\ tpc' = [tpc EXCEPT ![i] = "convert"]
              /\ UNCHANGED <<outcome, fstate, waiterQ, convErr>>
    /\ UNCHANGED <<cfgVars, mainVars, acStarted, preFinished, tempdir>>

\* the transcoder reads temp_file; with the input gone it cannot exit 0
ConvertStep(i, exit, outputExists) ==
    /\ tpc[i] = "convert"
    /\ tempdir[temp_file[i]] = 0 => exit # "zero"
    /\ convErr' = [convErr EXCEPT ![i] = ~ConvertAudioOk(exit, outputExists)]
    /\ tpc' = [tpc EXCEPT ![i] = "cleanup"]
    /\ UNCHANGED <<cfgVars, mainVars, acVars, fstate, outcome, temp_file, tempdir>>

Convert(i) ==
    \E exit \in TranscoderExits, outputExists \in BOOLEAN :
        ConvertStep(i, exit, outputExists)

\* the finally block, then the return or the re-raise
Cleanup(i) ==
    /\ tpc[i] = "cleanup"
    /\ IF tempdir[temp_file[i]] # 0
       THEN \E unlinkOk \in BOOLEAN :
              tempdir' = IF unlinkOk THEN [tempdir EXCEPT ![temp_file[i]] = 0]
                         ELSE tempdir
       ELSE UNCHANGED tempdir
    /\ Finish(i, IF convErr[i] THEN "ConversionFailed" ELSE "ok")
    /\ UNCHANGED <<cfgVars, mainVars, acStarted, preFinished>>

\* ---- main ----

MainDispatch ==
    /\ pc = "main"
    /\ pc' = IF max_workers > 1 THEN "submit" ELSE "seq_next"
    /\ UNCHANGED <<cfgVars, submitted, seqIdx, cancelIdx, results, report, raised,
                   exit_code, acVars, fstate, taskVars>>

MainExit ==
    /\ pc = "summary"
    /\ exit_code' = ExitCode(report.failed, continue_on_error)
    /\ pc' = "exited"
    /\ UNCHANGED <<cfgVars, submitted, seqIdx, cancelIdx, results, report, raised,
                   acVars, fstate, taskVars>>

\* ---- _process_sequential ----

\* the next iteration of "for i, url in enumerate(urls, 1)" enters extract
SeqCall ==
    /\ pc = "seq_next"
    /\ seqIdx < n
    /\ seqIdx' = seqIdx + 1
    /\ tpc' = [tpc EXCEPT ![SeqOrder(seqIdx + 1)] = "check"]
    /\ pc' = "seq_wait"
    /\ UNCHANGED <<cfgVars, submitted, cancelIdx, results, report, raised, exit_code,
                   acVars, fstate, outcome, temp_file, convErr, tempdir>>

\* extract returned or raised: append the outcome; without --continue-on-error
\* the handler re-raises, the exception leaves _process_sequential and main
\* uncaught, and the interpreter ends the process with status 1
SeqHandle ==
    /\ pc = "seq_wait"
    /\ LET i == SeqOrder(seqIdx) IN
         /\ tpc[i] = "done"
         /\ IF outcome[i] = "ok"
            THEN /\ results' = [results EXCEPT !.success = Record(@, i)]
                 /\ pc' = "seq_next"
                 /\ UNCHANGED <<raised, exit_code>>
            ELSE /\ results' = [results EXCEPT !.failed = Record(@, i)]
                 /\ IF RaiseOnError(continue_on_error)
                    THEN /\ raised' = TRUE
                         /\ exit_code' = 1
                         /\ pc' = "exited"
                    ELSE /\ pc' = "seq_next"
                         /\ UNCHANGED <<raised, exit_code>>
    /\ UNCHANGED <<cfgVars, submitted, seqIdx, cancelIdx, report, acVars, fstate, taskVars>>

\* the loop is exhausted: return results
SeqReturn ==
    /\ pc = "seq_next"
    /\ seqIdx = n
    /\ report' = Returned(results)
    /\ pc' = "summary"
    /\ UNCHANGED <<cfgVars, submitted, seqIdx, cancelIdx, results, raised, exit_code,
                   acVars, fstate, taskVars>>

\* ---- _process_parallel ----

\* one executor.submit of the dict comprehension
Submit ==
    /\ pc = "submit"
    /\ submitted < n
    /\ submitted' = submitted + 1
    /\ fstate' = [fstate EXCEPT ![submitted + 1] = "PENDING"]
    /\ pc' = IF submitted + 1 = n THEN "as_completed" ELSE "submit"
    /\ UNCHANGED <<cfgVars, seqIdx, cancelIdx, results, report, raised, exit_code,
                   acVars, taskVars>>

\* a free worker thread takes the oldest queued work item that was not
\* cancelled and starts process_single on it
StartTask(i) ==
    /\ Parallel
    /\ fstate[i] = "PENDING"
    /\ \A j \in Pending : i <= j
    /\ Cardinality(Executing) < PoolSize
    /\ fstate' = [fstate EXCEPT ![i] = "RUNNING"]
    /\ tpc' = [tpc EXCEPT ![i] = "check"]
    /\ UNCHANGED <<cfgVars, mainVars, acVars, outcome, temp_file, convErr, tempdir>>

\* the first next() on as_completed(futures): futures already finished are
\* set aside, a waiter collects the ones that finish from now on
AsCompletedStart ==
    /\ pc = "as_completed"
    /\ acStarted' = TRUE
    /\ preFinished' = AlreadyFinished
    /\ pc' = "collect"
    /\ UNCHANGED <<cfgVars, submitted, seqIdx, cancelIdx, results, report, raised,
                   exit_code, waiterQ, fstate, taskVars>>

\* the future as_completed yields next: any of the already finished ones
\* first (a set, no order), then the waiter's list in completion order
Yieldable(i) ==
    IF preFinished # {} THEN i \in preFinished
    ELSE waiterQ # <<>> /\ i = Head(waiterQ)

\* one iteration of the for loop over as_completed
Collect(i) ==
    /\ pc = "collect"
    /\ Yieldable(i)
    /\ preFinished' = preFinished \ {i}
    /\ waiterQ' = IF preFinished # {} THEN waiterQ ELSE Tail(waiterQ)
    /\ IF outcome[i] = "ok"
       THEN /\ results' = [results EXCEPT !.success = Record(@, i)]
            /\ pc' = IF Len(results.success) + Len(results.failed) + 1 = n
                     THEN "shutdown" ELSE "collect"
            /\ UNCHANGED cancelIdx
       ELSE /\ results' = [results EXCEPT !.failed = Record(@, i)]
            /\ IF CancelOnError(continue_on_error)
               THEN /\ pc' = "cancel"
                    /\ cancelIdx' = 1
               ELSE /\ pc' = IF Len(results.success) + Len(results.failed) + 1 = n
                             THEN "shutdown" ELSE "collect"
                    /\ UNCHANGED cancelIdx
    /\ UNCHANGED <<cfgVars, submitted, seqIdx, report, raised, exit_code,
                   acStarted, fstate, taskVars>>

\* one f.cancel() of "for f in futures": only a pending future is cancelled
Cancel ==
    /\ pc = "cancel"
    /\ fstate' = IF fstate[cancelIdx] = "PENDING"
                 THEN [fstate EXCEPT ![cancelIdx] = "CANCELLED"] ELSE fstate
    /\ IF cancelIdx = n
       THEN pc' = "shutdown" /\ UNCHANGED cancelIdx
       ELSE cancelIdx' = cancelIdx + 1 /\ UNCHANGED pc
    /\ UNCHANGED <<cfgVars, submitted, seqIdx, results, report, raised, exit_code,
                   acVars, taskVars>>

\* leaving the with block: executor.shutdown(wait=True) joins the workers,
\* which first run whatever is still queued; then return results
Shutdown ==
    /\ pc = "shutdown"
    /\ PoolDrained
    /\ report' = Returned(results)
    /\ pc' = "summary"
    /\ UNCHANGED <<cfgVars, submitted, seqIdx, cancelIdx, results, raised, exit_code,
                   acVars, fstate, taskVars>>

Next ==
    \/ MainDispatch /\ UNCHANGED obsVars
    \/ SeqCall /\ UNCHANGED obsVars
    \/ SeqHandle /\ UNCHANGED obsVars
    \/ SeqReturn /\ UNCHANGED obsVars
    \/ Submit /\ UNCHANGED obsVars
    \/ \E i \in Reqs : StartTask(i) /\ UNCHANGED obsVars
    \/ AsCompletedStart /\ UNCHANGED obsVars
    \/ \E i \in Reqs : Collect(i) /\ UNCHANGED obsVars
    \/ Cancel /\ UNCHANGED obsVars
    \/ Shutdown /\ UNCHANGED obsVars
    \/ MainExit /\ UNCHANGED obsVars
    \/ \E i \in Reqs : Precheck(i) /\ UNCHANGED obsVars
    \/ \E i \in Reqs : Download(i) /\ UNCHANGED obsVars
    \/ \E i \in Reqs : Locate(i) /\ UNCHANGED obsVars
    \/ \E i \in Reqs : Convert(i) /\ UNCHANGED obsVars
    \/ \E i \in Reqs : Cleanup(i) /\ UNCHANGED obsVars

Spec == Init /\ [][Next]_vars

\* the main thread and the pool's workers are operating-system threads and
\* every extraction returns or raises: a step that can be taken is taken
\* sequential and parallel runs of at most as many requests as the largest
\* pool has workers
InitFair == Init /\ n <= MaxJobs

FairSpec == InitFair /\ [][Next]_vars /\ WF_vars(Next)

TypeOK ==
    /\ n \in 1..MaxUrls
    /\ max_workers \in 1..MaxJobs
    /\ continue_on_error \in BOOLEAN
    /\ pc \in {"main", "seq_next", "seq_wait", "submit", "as_completed", "collect",
               "cancel", "shutdown", "summary", "exited"}
    /\ exit_code \in {-1, 0, 1}
    /\ \A i \in Reqs : fstate[i] \in {"NONE", "PENDING", "RUNNING", "FINISHED", "CANCELLED"}
    /\ \A i \in Reqs : outcome[i] \in {"none", "ok", "failed"}
    /\ \A e \in TempExts : tempdir[e] \in 0..(n + 1)

\* ---- the sequential batch with a downloader free to pick the container ----

\* --jobs 1 over one output directory; each download may come in any container
InitSeq ==
    /\ n \in 1..MaxUrls
    /\ max_workers = 1
    /\ continue_on_error \in BOOLEAN
    /\ formats = TempExts
    /\ ObsIdle
    /\ pc = "main"
    /\ submitted = 0
    /\ seqIdx = 0
    /\ cancelIdx = 0
    /\ fstate = [i \in 1..n |-> "NONE"]
    /\ acStarted = FALSE
    /\ preFinished = {}
    /\ waiterQ = <<>>
    /\ results = EmptyResults
    /\ report = NoReport
    /\ raised = FALSE
    /\ exit_code = -1
    /\ tpc = [i \in 1..n |-> "idle"]
    /\ outcome = [i \in 1..n |-> "none"]
    /\ temp_file = [i \in 1..n |-> "none"]
    /\ convErr = [i \in 1..n |-> FALSE]
    /\ tempdir = [e \in TempExts |-> 0]

NextSeq ==
    \/ MainDispatch /\ UNCHANGED obsVars
    \/ SeqCall /\ UNCHANGED obsVars
    \/ SeqHandle /\ UNCHANGED obsVars
    \/ SeqReturn /\ UNCHANGED obsVars
    \/ MainExit /\ UNCHANGED obsVars
    \/ \E i \in Reqs : Precheck(i) /\ UNCHANGED obsVars
    \/ \E i \in Reqs : Download(i) /\ UNCHANGED obsVars
    \/ \E i \in Reqs : Locate(i) /\ UNCHANGED obsVars
    \/ \E i \in Reqs : Convert(i) /\ UNCHANGED obsVars
    \/ \E i \in Reqs : Cleanup(i) /\ UNCHANGED obsVars

SpecSeq == InitSeq /\ [][NextSeq]_vars

\* ---- the parallel batch with its completion history ----

\* a parallel run of at most as many requests as the largest pool has workers
InitOrder == Init /\ Parallel /\ n <= MaxJobs

\* the requests whose extract ended in this step
JustFinished == {i \in Reqs : tpc[i] # "done" /\ tpc'[i] = "done"}

\* history kept alongside a step of the batch: the order in which futures
\* finish, and the futures as_completed found finished on its first next()
Track ==
    /\ finish_order' = IF JustFinished = {} THEN finish_order
                       ELSE Append(finish_order, CHOOSE i \in JustFinished : TRUE)
    /\ early' = IF acStarted' /\ ~acStarted THEN preFinished' ELSE early
    /\ UNCHANGED <<callVars, sanVars>>

NextOrder ==
    \/ MainDispatch /\ Track
    \/ Submit /\ Track
    \/ \E i \in Reqs : StartTask(i) /\ Track
    \/ AsCompletedStart /\ Track
    \/ \E i \in Reqs : Collect(i) /\ Track
    \/ Cancel /\ Track
    \/ Shutdown /\ Track
    \/ MainExit /\ Track
    \/ \E i \in Reqs : Precheck(i) /\ Track
    \/ \E i \in Reqs : Download(i) /\ Track
    \/ \E i \in Reqs : Locate(i) /\ Track
    \/ \E i \in Reqs : Convert(i) /\ Track
    \/ \E i \in Reqs : Cleanup(i) /\ Track

SpecOrder == InitOrder /\ [][NextOrder]_vars

\* ---- one direct call: AudioExtractor(output_dir).extract(url, format) ----

\* a url text is at most MaxParts of UrlParts, a format input has at most
\* MaxDots leading dots, output_dir holds at most MaxStale earlier temp files
MaxParts == 2
MaxDots == 1
MaxStale == 1

WatchLink == WatchPattern \o <<"?", "v", "=", "a">>

ShortLink == ShortPattern \o <<"a">>

ShortsLink == ShortsPattern \o <<"a">>

LiveLink == LivePattern \o <<"a">>

AcceptedLinks == {WatchLink, ShortLink, ShortsLink, LiveLink}

Scheme == <<"h", "t", "t", "p", "s", ":", "/", "/">>

OtherSite == <<"v", "i", "m", "e", "o", ".", "c", "o", "m", "/">>

Words == <<"n", "o", "t", " ", "a", " ", "u", "r", "l", " ">>

UrlParts == AcceptedLinks \cup {Scheme, OtherSite, Words, Host}

RECURSIVE UrlTexts(_)
UrlTexts(k) ==
    IF k = 0 THEN {<<>>}
    ELSE UrlTexts(k - 1) \cup {t \o q : t \in UrlTexts(k - 1), q \in UrlParts}

\* what a caller can pass as url: None, an int, a string
UrlInputs(k) ==
    {NoUrl, [type |-> "int", text |-> <<>>]}
    \cup {[type |-> "str", text |-> t] : t \in UrlTexts(k)}

StartsWith(s, q) == Len(s) >= Len(q) /\ SubSeq(s, 1, Len(q)) = q

\* the four forms the validation is there to let through
AcceptedForm(url) ==
    /\ url.type = "str"
    /\ \E l \in AcceptedLinks : url.text = l \/ url.text = Scheme \o l

UnrelatedDomain(url) ==
    /\ url.type = "str"
    /\ StartsWith(url.text, OtherSite) \/ StartsWith(url.text, Scheme \o OtherSite)

ArbitraryText(url) == url.type = "str" /\ StartsWith(url.text, Words)

FormatBases == SUPPORTED_FORMATS \cup {<<"f", "l", "a", "c">>, <<>>}

Cased(b) ==
    {[k \in 1..Len(b) |-> IF k \in m THEN UpperChar(b[k]) ELSE b[k]] :
        m \in SUBSET (1..Len(b))}

Dots(k) == [j \in 1..k |-> "."]

FormatInputs ==
    {Dots(k) \o c : k \in 0..MaxDots, c \in UNION {Cased(b) : b \in FormatBases}}

\* f is b up to letter case
SameUpToCase(f, b) ==
    /\ Len(f) = Len(b)
    /\ \A k \in 1..Len(b) : f[k] = b[k] \/ f[k] = UpperChar(b[k])

\* f is b up to letter case and one leading dot
Variant(f, b) ==
    \/ SameUpToCase(f, b)
    \/ f # <<>> /\ Head(f) = "." /\ SameUpToCase(Tail(f), b)

\* the writer of a temp_audio file an earlier call left in output_dir
Earlier == n + 1

StaleDirs ==
    {[e \in TempExts |-> IF e \in S THEN Earlier ELSE 0] :
        S \in {T \in SUBSET TempExts : Cardinality(T) <= MaxStale}}

\* cli.py is not running: one caller, one request
Standalone ==
    /\ n = 1
    /\ max_workers = 1
    /\ continue_on_error = FALSE
    /\ pc = "main"
    /\ submitted = 0
    /\ seqIdx = 0
    /\ cancelIdx = 0
    /\ fstate = [i \in 1..n |-> "NONE"]
    /\ acStarted = FALSE
    /\ preFinished = {}
    /\ waiterQ = <<>>
    /\ results = EmptyResults
    /\ report = NoReport
    /\ raised = FALSE
    /\ exit_code = -1
    /\ outcome = [i \in 1..n |-> "none"]
    /\ temp_file = [i \in 1..n |-> "none"]
    /\ convErr = [i \in 1..n |-> FALSE]

InitCall ==
    /\ Standalone
    /\ formats = TempExts
    /\ tpc = [i \in 1..n |-> "check"]
    /\ tempdir \in StaleDirs
    /\ call \in {CallOf(u, f) : u \in UrlInputs(1), f \in FormatInputs}
    /\ title = <<>>
    /\ safe_title = <<>>
    /\ resanitized = <<>>
    /\ finish_order = <<>>
    /\ early = {}

CallPrecheck ==
    /\ \E launch \in ProbeLaunches :
         /\ PrecheckStep(1, PrecheckResult(launch, call.url, call.format))
         /\ call' = [call EXCEPT
                        !.probe = launch,
                        !.dep = CheckDependencies(launch),
                        !.result = IF tpc'[1] = "done"
                                   THEN PrecheckResult(launch, call.url, call.format)
                                   ELSE "none"]
    /\ UNCHANGED <<sanVars, histVars>>

CallDownload ==
    /\ Download(1)
    /\ call' = IF tpc'[1] = "done"
               THEN [call EXCEPT !.result = "DownloadFailed"]
               ELSE [call EXCEPT !.ext = CHOOSE e \in TempExts : tempdir'[e] = 1]
    /\ UNCHANGED <<sanVars, histVars>>

CallLocate ==
    /\ Locate(1)
    /\ call' = IF tpc'[1] = "done"
               THEN [call EXCEPT !.result = "ArtifactNotFound"]
               ELSE call
    /\ UNCHANGED <<sanVars, histVars>>

CallConvert ==
    /\ \E exit \in TranscoderExits, outputExists \in BOOLEAN :
         /\ ConvertStep(1, exit, outputExists)
         /\ call' = [call EXCEPT !.exit = exit, !.output = outputExists]
    /\ UNCHANGED <<sanVars, histVars>>

CallCleanup ==
    /\ Cleanup(1)
    /\ call' = [call EXCEPT
                   !.unlinked = IF tempdir'[temp_file[1]] = 0 THEN "yes" ELSE "no",
                   !.result = IF convErr[1] THEN "ConversionFailed" ELSE "path"]
    /\ UNCHANGED <<sanVars, histVars>>

NextCall ==
    \/ CallPrecheck
    \/ CallDownload
    \/ CallLocate
    \/ CallConvert
    \/ CallCleanup

SpecCall == InitCall /\ [][NextCall]_vars

\* ---- _validate_url on its own ----

InitUrl ==
    /\ Standalone
    /\ formats = PreferredFormats
    /\ tpc = [i \in 1..n |-> "idle"]
    /\ tempdir = [e \in TempExts |-> 0]
    /\ call \in {CallOf(u, <<>>) : u \in UrlInputs(MaxParts)}
    /\ title = <<>>
    /\ safe_title = <<>>
    /\ resanitized = <<>>
    /\ finish_order = <<>>
    /\ early = {}

UrlValidate ==
    /\ call.made
    /\ call.valid = "none"
    /\ call' = [call EXCEPT !.valid = IF ValidateUrl(call.url) THEN "pass"
                                      ELSE "InvalidURL"]
    /\ UNCHANGED <<cfgVars, mainVars, acVars, fstate, taskVars, sanVars, histVars>>

NextUrl == UrlValidate

SpecUrl == InitUrl /\ [][NextUrl]_vars

\* ---- _sanitize_filename on its own ----

\* a title is a run of alphanumerics followed by at most MaxEdge characters
MaxEdge == 3

RECURSIVE Texts(_)
Texts(k) ==
    IF k = 0 THEN {<<>>}
    ELSE Texts(k - 1) \cup {t \o <<c>> : t \in Texts(k - 1), c \in TitleChars}

Fill(k) == [j \in 1..k |-> "a"]

\* no run, or a run that ends within MaxEdge of the length limit
FillLens == {0} \cup {MaxFilenameLen - d : d \in 0..MaxEdge}

Titles == {Fill(k) \o t : k \in FillLens, t \in Texts(MaxEdge)}

InitSanitize ==
    /\ Standalone
    /\ formats = PreferredFormats
    /\ tpc = [i \in 1..n |-> "idle"]
    /\ tempdir = [e \in TempExts |-> 0]
    /\ call = NoCall
    /\ title \in Titles
    /\ safe_title = <<>>
    /\ resanitized = <<>>
    /\ finish_order = <<>>
    /\ early = {}

\* safe_title = self._sanitize_filename(video_title)
Sanitize ==
    /\ safe_title = <<>>
    /\ safe_title' = SanitizeFilename(title)
    /\ UNCHANGED <<cfgVars, mainVars, acVars, fstate, taskVars, callVars, histVars,
                   title, resanitized>>

\* the sanitizer applied to its own result
Resanitize ==
    /\ safe_title # <<>>
    /\ resanitized = <<>>
    /\ resanitized' = SanitizeFilename(safe_title)
    /\ UNCHANGED <<cfgVars, mainVars, acVars, fstate, taskVars, callVars, histVars,
                   title, safe_title>>

NextSanitize ==
    \/ Sanitize
    \/ Resanitize

SpecSanitize == InitSanitize /\ [][NextSanitize]_vars

\* ---- properties ----

Finished == pc \in {"summary", "exited"}

Increasing(s) == \A a, b \in 1..Len(s) : a < b => s[a] < s[b]

Recorded(i, r) == Cardinality({k \in 1..Len(r.success) : r.success[k] = i})
                  + Cardinality({k \in 1..Len(r.failed) : r.failed[k] = i})

FirstFailureObserved == Parallel /\ ~continue_on_error /\ results.failed # <<>>

\* C1: parallel run without --continue-on-error: in the report the run returns,
\* every request a worker started has exactly one outcome and every request
\* that was never started has none.
C1_StartedAreRecorded ==
    (Finished /\ Parallel /\ ~continue_on_error) =>
        /\ report.returned
        /\ \A i \in Reqs : Recorded(i, report) = (IF Started(i) THEN 1 ELSE 0)

\* C2: sequential run without --continue-on-error whose k-th request is the
\* first to fail: the run yields a report with requests 1..k-1 as successes in
\* input order and request k as the only failure.
C2_ReportUpToFirstFailure ==
    (pc = "exited" /\ ~Parallel /\ ~continue_on_error) =>
        \A k \in Reqs :
            (outcome[k] = "failed" /\ \A j \in 1..(k - 1) : outcome[j] = "ok") =>
                /\ report.returned
                /\ report.success = [j \in 1..(k - 1) |-> j]
                /\ report.failed = <<k>>

\* C3: parallel run without --continue-on-error: once the first failure has
\* been recorded, no pending request starts executing.
C3_NoStartAfterFailure ==
    [][FirstFailureObserved =>
         \A i \in Reqs : fstate[i] = "PENDING" => fstate'[i] # "RUNNING"]_vars

\* C4: at every moment the number of requests inside extract is at most
\* max_workers.
C4_BoundedInFlight == Cardinality(Executing) <= max_workers

C4_Witness ==
    /\ Parallel
    /\ Cardinality(Executing) = max_workers
    /\ Pending # {}

\* C5: parallel run over one output directory: the temp file a request hands
\* to the transcoder, and the temp file it deletes, is the one its own
\* download wrote.
C5_OwnTempFile ==
    [][Parallel =>
         \A i \in Reqs :
            /\ (tpc[i] = "convert" /\ tpc'[i] = "cleanup") => tempdir[temp_file[i]] = i
            /\ (tpc[i] = "cleanup" /\ tempdir' # tempdir) => tempdir[temp_file[i]] = i]_vars

\* C6: whenever an extraction fails, the batch function still returns a
\* report (nothing propagates out of it) and the report lists that request
\* as failed.
C6_FailureNeverCrashes ==
    pc = "exited" =>
        \A i \in Reqs : outcome[i] = "failed" =>
            /\ ~raised
            /\ report.returned
            /\ i \in SeqItems(report.failed)

\* C7: with --continue-on-error the final report holds exactly one outcome per
\* request: every succeeding request once in success, every failing request
\* once in failed, n entries in all.
C7_OneOutcomePerRequest ==
    (Finished /\ continue_on_error) =>
        /\ report.returned
        /\ Len(report.success) + Len(report.failed) = n
        /\ \A i \in Reqs :
             /\ outcome[i] \in {"ok", "failed"}
             /\ outcome[i] = "ok" <=> i \in SeqItems(report.success)
             /\ outcome[i] = "failed" <=> i \in SeqItems(report.failed)

C7_Witness ==
    /\ Finished
    /\ continue_on_error
    /\ Parallel
    /\ n >= 3
    /\ Len(report.success) >= 1
    /\ Len(report.failed) >= 2

\* C8: the exit status is 0 exactly when the failures list is empty or
\* --continue-on-error is set, and 1 exactly when an attempted request failed
\* and --continue-on-error is not set.
C8_ExitStatus ==
    pc = "exited" =>
        /\ exit_code \in {0, 1}
        /\ exit_code = 0 <=> (results.failed = <<>> \/ continue_on_error)
        /\ exit_code = 1 <=> ((\E i \in Reqs : outcome[i] = "failed") /\ ~continue_on_error)

C8_Witness ==
    /\ pc = "exited"
    /\ Parallel
    /\ ~continue_on_error
    /\ exit_code = 1
    /\ \E i \in Reqs : outcome[i] = "ok"

\* C9: sequential run without --continue-on-error: no request after the first
\* failing one ever enters extract.
C9_StopAtFirstFailure ==
    (~Parallel /\ ~continue_on_error) =>
        \A i, j \in Reqs : (i < j /\ outcome[i] = "failed") => ~Started(j)

C9_Witness ==
    /\ ~Parallel
    /\ ~continue_on_error
    /\ pc = "exited"
    /\ \E i, j \in Reqs : i < j /\ outcome[i] = "failed" /\ ~Started(j)

\* C10: sequential run: one request at a time, each entering extract only
\* after all earlier ones have ended; success and failed are each in input
\* order; with no failure the returned success list is the whole input.
C10_SequentialOrder ==
    ~Parallel =>
        /\ Cardinality(Executing) <= 1
        /\ \A i, j \in Reqs : (i < j /\ Started(j)) => tpc[i] = "done"
        /\ Increasing(results.success)
        /\ Increasing(results.failed)
        /\ (report.returned /\ report.failed = <<>>) => report.success = [k \in 1..n |-> k]

C10_Witness ==
    /\ ~Parallel
    /\ report.returned
    /\ n >= 3
    /\ report.failed = <<>>
    /\ report.success = [k \in 1..n |-> k]

\* the downloader ran: it wrote a file or it failed
DownloaderInvoked == call.ext # "none" \/ call.result = "DownloadFailed"

Returned1 == tpc[1] = "done"

\* C11: a direct extract call whose download succeeded: when the call has
\* returned or raised and no removal failed, no temp_audio file written by
\* this call's download is left in the output directory.
C11_NoTempFileRemains ==
    (Returned1 /\ call.ext # "none" /\ call.unlinked # "no") =>
        \A e \in TempExts : tempdir[e] # 1

\* C12: the dependency probe never raises: it returns true exactly when the
\* version query exited 0 in time and false for every other launch outcome.
C12_ProbeNeverRaises ==
    call.probe # "none" =>
        /\ call.dep # "raise"
        /\ call.dep = "True" <=> call.probe = "exit0"

\* C13: extract reports the first failing check in the order probe, URL,
\* format, and the downloader runs only after all three passed.
C13_PreconditionOrder ==
    call.probe # "none" =>
        /\ call.dep = "False" => call.result = "DependencyMissing"
        /\ (call.dep = "True" /\ ~ValidateUrl(call.url)) => call.result = "InvalidURL"
        /\ (call.dep = "True" /\ ValidateUrl(call.url) /\ ~FormatSupported(call.format))
              => call.result = "UnsupportedFormat"
        /\ DownloaderInvoked =>
              call.dep = "True" /\ ValidateUrl(call.url) /\ FormatSupported(call.format)

C13_Witness ==
    /\ call.dep = "False"
    /\ ~ValidateUrl(call.url)
    /\ ~FormatSupported(call.format)
    /\ call.result = "DependencyMissing"

\* C14: a transcoder that exits non-zero, times out or leaves no output file
\* makes extract fail with a conversion error and the downloaded temp file is
\* gone afterwards; extract returns a path only after exit 0 with the output
\* file present.
C14_ConversionFailure ==
    (Returned1 /\ call.exit # "none") =>
        /\ ~ConvertAudioOk(call.exit, call.output) =>
              /\ call.result = "ConversionFailed"
              /\ \A e \in TempExts : tempdir[e] # 1
        /\ call.result = "path" => (call.exit = "zero" /\ call.output)

\* C18: URL validation passes the four accepted forms and fails for None,
\* non-strings, the empty string, URLs of other sites and arbitrary text.
C18_UrlValidation ==
    call.valid # "none" =>
        /\ AcceptedForm(call.url) => call.valid = "pass"
        /\ (\/ call.url.type # "str"
            \/ call.url.text = <<>>
            \/ UnrelatedDomain(call.url)
            \/ ArbitraryText(call.url)) => call.valid = "InvalidURL"

\* C19: format inputs that are wav or mp3 up to letter case and one leading
\* dot normalise to that token and are not rejected as unsupported; an input
\* whose normalised token is neither is rejected as unsupported once the
\* probe and the URL passed, and the downloader never runs for it.
C19_FormatNormalisation ==
    call.probe # "none" =>
        /\ \A b \in SUPPORTED_FORMATS :
              Variant(call.format, b) =>
                  /\ NormalizeFormat(call.format) = b
                  /\ call.result # "UnsupportedFormat"
        /\ ~FormatSupported(call.format) =>
              /\ ~DownloaderInvoked
              /\ (call.dep = "True" /\ ValidateUrl(call.url))
                    => call.result = "UnsupportedFormat"

C19_Witness ==
    /\ call.format = <<".", "M", "P", "3">>
    /\ DownloaderInvoked

\* position k of t lies in a run of exactly three dots
InEllipsis(t, k) ==
    \E a \in 1..Len(t) :
        /\ a <= k /\ k <= a + 2 /\ a + 2 <= Len(t)
        /\ \A j \in a..(a + 2) : t[j] = "."
        /\ a > 1 => t[a - 1] # "."
        /\ a + 2 < Len(t) => t[a + 3] # "."

\* the character-by-character rule as the description gives it
Described(t) ==
    [k \in 1..Len(t) |->
        IF Kept(t[k]) \/ InEllipsis(t, k) THEN t[k] ELSE "_"]

\* C15: sanitizing a sanitized title changes nothing.
C15_Idempotent == resanitized # <<>> => resanitized = safe_title

\* C16: the sanitizer keeps alphanumerics, space, hyphen and underscore,
\* keeps a run of exactly three dots, and turns every other character into
\* one underscore (before trimming, truncation and the fallback); a title
\* without dots gives a name made only of the kept characters.
C16_CharacterRule ==
    safe_title # <<>> =>
        /\ safe_title = OrAudio(Truncate(Strip(Described(title))))
        /\ (\A k \in 1..Len(title) : title[k] # ".") =>
              (safe_title = Audio \/ \A k \in 1..Len(safe_title) : Kept(safe_title[k]))

Before(s, a, b) == \E j, k \in 1..Len(s) : j < k /\ s[j] = a /\ s[k] = b

\* a and b are recorded in the same list of the report being built
SameList(a, b) ==
    \/ {a, b} \subseteq SeqItems(results.success)
    \/ {a, b} \subseteq SeqItems(results.failed)

InListOrder(a, b) ==
    /\ {a, b} \subseteq SeqItems(results.success) => Before(results.success, a, b)
    /\ {a, b} \subseteq SeqItems(results.failed) => Before(results.failed, a, b)

\* C20: parallel run: of two requests recorded in the same list, the one
\* whose task finished first comes first, also when both had finished before
\* the collecting loop started.
C20_CompletionOrder ==
    Parallel =>
        \A a, b \in Reqs :
            (Before(finish_order, a, b) /\ SameList(a, b)) => InListOrder(a, b)

\* C20 as the code has it: the same, for two requests of which at least one
\* finished after the collecting loop started.
C20_OrderAfterCollectingStarted ==
    Parallel =>
        \A a, b \in Reqs :
            (Before(finish_order, a, b) /\ SameList(a, b) /\ ~({a, b} \subseteq early))
                => InListOrder(a, b)

C20_Witness ==
    \E a, b \in Reqs :
        /\ Before(finish_order, a, b)
        /\ a \notin early /\ b \notin early
        /\ Before(results.success, a, b)

IsPrefix(s, t) == Len(s) <= Len(t) /\ SubSeq(t, 1, Len(s)) = s

\* r grew into q by appending only
Grown(r, q) == IsPrefix(r.success, q.success) /\ IsPrefix(r.failed, q.failed)

\* C21: batch run: the lists of the report only grow at their end, a step
\* that changes them is a step of the orchestrating thread and not of an
\* extraction, no request is recorded more than once over both lists, and
\* successes plus failures never exceed the number of requests. The lists
\* start empty, so it is enough that every step keeps this.
OncePerRequest ==
    /\ \A i \in Reqs : Recorded(i, results) <= 1
    /\ Len(results.success) + Len(results.failed) <= n

C21_AppendOnly ==
    [][/\ OncePerRequest'
       /\ Grown(results, results')
       /\ Grown(report, report')
       /\ results' # results => (pc \in {"seq_wait", "collect"} /\ UNCHANGED taskVars)
      ]_vars

C21_Witness ==
    /\ Len(results.success) >= 2
    /\ Len(results.failed) >= 1

PhaseOrder == <<"Idle", "Dispatching", "Draining", "Completed">>

\* where _process_parallel stands: before the with block, in the submit
\* comprehension, from as_completed to the end of the with block, returned
PhaseOf(p) ==
    IF p = "main" THEN "Idle"
    ELSE IF p = "submit" THEN "Dispatching"
    ELSE IF p \in {"as_completed", "collect", "cancel", "shutdown"} THEN "Draining"
    ELSE "Completed"

PhaseIndex(p) == CHOOSE k \in 1..Len(PhaseOrder) : PhaseOrder[k] = PhaseOf(p)

\* C22: parallel run: the phases are entered in the order Dispatching,
\* Draining, Completed, one after the other, and when the report has been
\* returned no extraction is executing, also after a cancellation. Nothing
\* is returned at the start, so it is enough that every step keeps this.
Joined ==
    report.returned => \A i \in Reqs : fstate[i] # "RUNNING" /\ ~InExtract(i)

C22_PhasesAndJoin ==
    [][Parallel =>
         /\ Joined'
         /\ \/ PhaseIndex(pc') = PhaseIndex(pc)
            \/ PhaseIndex(pc') = PhaseIndex(pc) + 1]_vars

\* returned after a cancellation that found a request in flight
C22_Witness ==
    /\ Parallel
    /\ report.returned
    /\ ~continue_on_error
    /\ report.failed # <<>>
    /\ \E i \in Reqs : tpc[i] = "done" /\ Recorded(i, report) = 0

\* C23: with every extraction ending, every batch run ends, whatever the
\* number of workers, the value of continue_on_error and the failures.
C23_RunCompletes == <>(pc = "exited")

\* a run that ended with a future cancelled before it started
C23_Witness ==
    /\ pc = "exited"
    /\ \E i \in Reqs : fstate[i] = "CANCELLED"

\* C24: sequential run over one output directory: the file a request hands
\* to the transcoder is the one its own download wrote, whatever temp_audio
\* files earlier requests left behind.
C24_FreshFileTranscoded ==
    [][~Parallel =>
         \A i \in Reqs :
            (tpc[i] = "convert" /\ tpc'[i] = "cleanup") => tempdir[temp_file[i]] = i]_vars

====
